---------------------------- MODULE Spec2Model ----------------------------
(***************************************************************************)
(* State-machine model of i3bar_statusline.py: the Block cache             *)
(* (Block.__init__, Block.get_attributes), the data sources (the update    *)
(* methods), StatusLine.print, the stop/cont signal handlers and the loop  *)
(* of main.                                                                *)
(*                                                                         *)
(* Time is counted in units of half a tick: the loop's time.sleep(0.1) is  *)
(* Tick = 2 units, so that intervals below, equal to and above the tick    *)
(* can be told apart.                                                      *)
(*                                                                         *)
(* Python runs a signal handler written in Python only between bytecodes   *)
(* of the main thread: delivery of a signal sets a flag (tripped), and the *)
(* handler runs at the interpreter's next check.  While the interpreter is *)
(* inside a C call (the builtin print, signal.sigwait) no handler runs.    *)
(***************************************************************************)
EXTENDS Integers, Sequences, FiniteSets, TLC

\* ------------------------------------------------------------- bounds
MaxTime    == 6     \* the clock stops advancing here
MaxDelay   == 1     \* longest duration of one data-source query
MaxVolume  == 100   \* the mixer's volumes are 0..MaxVolume
MaxSignals == 2     \* signals delivered in one run

\* time.sleep(0.1) of main's loop, in time units
Tick == 2

\* ------------------------------------------------------ Python values
\* str and None are told apart by the field null
None      == [null |-> TRUE,  s |-> <<>>]
Str(toks) == [null |-> FALSE, s |-> toks]

Last(seq)  == seq[Len(seq)]
Front(seq) == SubSeq(seq, 1, Len(seq) - 1)

RECURSIVE SumSeq(_)
SumSeq(seq) == IF seq = <<>> THEN 0 ELSE seq[1] + SumSeq(Tail(seq))

\* int(s) and float(s) for the decimal strings the mixer and /proc print
Numerals    == (0..MaxVolume) \cup {1000, 3001}
IsNumber(s) == \E n \in Numerals : ToString(n) = s
IntOf(s)    == CHOOSE n \in Numerals : ToString(n) = s

\* ------------------------------------------------- data sources (update)
\* Every update takes the block's attribute dictionary and what the
\* environment answers, and gives: raised (an exception leaves update), attr
\* (the dictionary afterwards), cmds (the external commands that were run).

\* datetime.now(tz) as the two strings strftime makes of it
ClockReadings ==
    { [hm |-> "23:59", dmy |-> "31.12.2025"],
      [hm |-> "00:00", dmy |-> "01.01.2026"] }

TimeUpdate(attr, inp) ==
    [raised |-> FALSE,
     attr   |-> [attr EXCEPT !.full_text = Str(<<inp.hm>>)],
     cmds   |-> <<>>]

DateUpdate(attr, inp) ==
    [raised |-> FALSE,
     attr   |-> [attr EXCEPT !.full_text = Str(<<inp.dmy>>)],
     cmds   |-> <<>>]

\* pamixer: rc is the exit status of --get-volume, volume and mute the two
\* stripped outputs
AudioReadings ==
    { [rc |-> 1, volume |-> "",    mute |-> "" ],
      [rc |-> 0, volume |-> "0",   mute |-> "false"],
      [rc |-> 0, volume |-> "50",  mute |-> "false"],
      [rc |-> 0, volume |-> "100", mute |-> "true"],
      [rc |-> 0, volume |-> "",    mute |-> "false"] }

Upper(s) == CASE s = "true"  -> "TRUE"
              [] s = "false" -> "FALSE"
              [] OTHER       -> s

\* a plausible slip: the thresholds without their fraction
AudioIconWholeThresholds(mute, volume) ==
    IF mute THEN <<"U+1F507", " ">>
    ELSE IF IntOf(volume) < 33 THEN <<"U+1F508", " ">>
    ELSE IF IntOf(volume) < 66 THEN <<"U+1F509", " ">>
    ELSE <<"U+1F50A", " ">>

\* The literal in front of the volume, lines 121-128: the icon's character
\* and a space.  int(volume) < 33.3 and int(volume) < 66.3 are in tenths.
AudioIcon(mute, volume) ==
    IF mute THEN <<"U+1F507", " ">>
    ELSE IF IntOf(volume) * 10 < 333 THEN <<"U+1F508", " ">>
    ELSE IF IntOf(volume) * 10 < 663 THEN <<"U+1F509", " ">>
    ELSE <<"U+1F50A", " ">>

\* a plausible slip: the failure is not turned into the fallback text but
\* raised
AudioUpdateRaising(attr, inp) ==
    IF inp.rc # 0
    THEN [raised |-> TRUE, attr |-> attr, cmds |-> <<"pamixer --get-volume">>]
    ELSE LET mute == Upper(inp.mute) = "TRUE" IN
         IF ~mute /\ ~IsNumber(inp.volume)
         THEN [raised |-> TRUE, attr |-> attr,
               cmds   |-> <<"pamixer --get-volume", "pamixer --get-mute">>]
         ELSE [raised |-> FALSE,
               attr   |-> [attr EXCEPT !.full_text =
                             Str(AudioIcon(mute, inp.volume)
                                 \o <<inp.volume, "%">>)],
               cmds   |-> <<"pamixer --get-volume", "pamixer --get-mute">>]

AudioUpdate(attr, inp) ==
    IF inp.rc # 0
    THEN \* subprocess.CalledProcessError caught, lines 113-115
         [raised |-> FALSE,
          attr   |-> [attr EXCEPT !.full_text = Str(<<"Could not find audio">>)],
          cmds   |-> <<"pamixer --get-volume">>]
    ELSE LET mute == Upper(inp.mute) = "TRUE" IN
         IF ~mute /\ ~IsNumber(inp.volume)
         THEN \* int(volume): ValueError
              [raised |-> TRUE, attr |-> attr,
               cmds   |-> <<"pamixer --get-volume", "pamixer --get-mute">>]
         ELSE [raised |-> FALSE,
               attr   |-> [attr EXCEPT !.full_text =
                             Str(AudioIcon(mute, inp.volume)
                                 \o <<inp.volume, "%">>)],
               cmds   |-> <<"pamixer --get-volume", "pamixer --get-mute">>]

\* /proc/cpuinfo as lines of whitespace-separated tokens
CpuReadings ==
    { <<>>,
      << <<"model", "name", ":", "cpu0">> >>,
      << <<"cpu", "MHz", ":", "1000">> >>,
      << <<"cpu", "MHz", ":", "1000">>, <<"model", "name", ":", "cpu0">>,
         <<"cpu", "MHz", ":", "3001">> >> }

\* line.find('cpu MHz') > -1
HasCpuMHz(ln) ==
    \E k \in 1..(Len(ln) - 1) : ln[k] = "cpu" /\ ln[k + 1] = "MHz"

MhzCpu(lines) ==
    LET hits == SelectSeq(lines, HasCpuMHz)
    IN  [k \in 1..Len(hits) |-> IntOf(Last(hits[k]))]

\* a plausible slip: an empty list is averaged to 0 instead of dividing
CpuUpdateGuarded(attr, lines) ==
    LET mhz_cpu == MhzCpu(lines)
        average == IF Len(mhz_cpu) = 0 THEN 0
                   ELSE SumSeq(mhz_cpu) \div Len(mhz_cpu)
    IN  [raised |-> FALSE,
         attr   |-> [attr EXCEPT !.full_text = Str(<<ToString(average), " MHz">>)],
         cmds   |-> <<>>]

CpuUpdate(attr, lines) ==
    LET mhz_cpu == MhzCpu(lines) IN
    IF Len(mhz_cpu) = 0
    THEN \* sum([]) / len([]): ZeroDivisionError
         [raised |-> TRUE, attr |-> attr, cmds |-> <<>>]
    ELSE LET average == SumSeq(mhz_cpu) \div Len(mhz_cpu) IN
         [raised |-> FALSE,
          attr   |-> [attr EXCEPT !.full_text = Str(<<ToString(average), " MHz">>)],
          cmds   |-> <<>>]

\* /proc/meminfo as lines <<key, value in kB>>
RamKeys == <<"MemTotal:", "MemFree:", "Buffers:", "Cached:", "SReclaimable:">>

FullMeminfo ==
    << <<"MemTotal:", 16000000>>, <<"MemFree:", 8000000>>, <<"Buffers:", 500000>>,
       <<"Cached:", 1450000>>, <<"SReclaimable:", 0>>, <<"Dirty:", 7>> >>

Without(lines, key) == SelectSeq(lines, LAMBDA ln : ln[1] # key)

RamReadings ==
    { FullMeminfo } \cup { Without(FullMeminfo, RamKeys[k]) : k \in 1..Len(RamKeys) }

MeminfoKeys(lines) == { lines[k][1] : k \in 1..Len(lines) }

\* d_meminfo[key]: the last line with that key wins
MeminfoValue(lines, key) ==
    LET ks == { k \in 1..Len(lines) : lines[k][1] = key }
    IN  lines[CHOOSE k \in ks : \A j \in ks : j <= k][2]

\* str(round(ram_usage_kb / 1000000, 2)) for a non-negative usage: the
\* quotient in hundredths, printed the way Python prints a float
RamText(ram_usage_kb) ==
    LET hundredths == (ram_usage_kb + 5000) \div 10000
        whole == hundredths \div 100
        frac  == hundredths % 100
    IN  IF frac % 10 = 0
        THEN <<ToString(whole), ".", ToString(frac \div 10), " Gb">>
        ELSE IF frac < 10
        THEN <<ToString(whole), ".0", ToString(frac), " Gb">>
        ELSE <<ToString(whole), ".", ToString(frac), " Gb">>

RamUpdate(attr, lines) ==
    IF \E k \in 1..Len(RamKeys) : RamKeys[k] \notin MeminfoKeys(lines)
    THEN \* d_meminfo[...]: KeyError
         [raised |-> TRUE, attr |-> attr, cmds |-> <<>>]
    ELSE LET ram_usage_kb == MeminfoValue(lines, "MemTotal:")
                             - MeminfoValue(lines, "MemFree:")
                             - MeminfoValue(lines, "Buffers:")
                             - MeminfoValue(lines, "Cached:")
                             - MeminfoValue(lines, "SReclaimable:")
         IN  [raised |-> FALSE,
              attr   |-> [attr EXCEPT !.full_text = Str(RamText(ram_usage_kb))],
              cmds   |-> <<>>]

\* iwctl station wlan0 show: stdout.strip().splitlines(), every line as its
\* whitespace-separated tokens
IwdReadings ==
    { <<>>,
      << <<"State", "connected">>, <<"Connected", "network", "home">>,
         <<"Frequency", "5180">> >>,
      << <<"State", "disconnected">> >>,
      << <<"No", "network">> >> }

\* b'network' in line, for the tokens of the readings
HasNetwork(ln) == \E k \in 1..Len(ln) : ln[k] \in {"network", "networks"}

\* a plausible slip: the loop left at the first line that matches
IwdUpdateFirstHit(attr, lines) ==
    LET hits == SelectSeq(lines, HasNetwork) IN
    IF \E k \in 1..Len(hits) : Len(hits[k]) < 3
    THEN [raised |-> TRUE, attr |-> attr, cmds |-> <<"iwctl station wlan0 show">>]
    ELSE [raised |-> FALSE,
          attr   |-> [attr EXCEPT !.full_text =
                        IF hits = <<>> THEN Str(<<"No wlan connection">>)
                        ELSE Str(<<hits[1][3]>>)],
          cmds   |-> <<"iwctl station wlan0 show">>]

IwdUpdate(attr, lines) ==
    LET hits == SelectSeq(lines, HasNetwork) IN
    IF \E k \in 1..Len(hits) : Len(hits[k]) < 3
    THEN \* line_parts[2]: IndexError
         [raised |-> TRUE, attr |-> attr, cmds |-> <<"iwctl station wlan0 show">>]
    ELSE [raised |-> FALSE,
          attr   |-> [attr EXCEPT !.full_text =
                        IF hits = <<>> THEN Str(<<"No wlan connection">>)
                        ELSE Str(<<Last(hits)[3]>>)],
          cmds   |-> <<"iwctl station wlan0 show">>]

\* nmcli -f GENERAL.CONNECTION device show wlan0: the lines of stdout
NmcliReadings ==
    { <<>>,
      << <<"GENERAL.CONNECTION:", "home">> >>,
      << <<"GENERAL.CONNECTION:", "--">> >> }

RECURSIVE Flatten(_)
Flatten(lines) ==
    IF lines = <<>> THEN <<>> ELSE lines[1] \o Flatten(Tail(lines))

NetworkManagerWIFIUpdate(attr, lines) ==
    LET connected_network == Flatten(lines) IN
    [raised |-> FALSE,
     attr   |-> [attr EXCEPT !.full_text =
                   IF Len(connected_network) = 0
                   THEN Str(<<"No wlan connection">>)
                   ELSE Str(<<Last(connected_network)>>)],
     cmds   |-> <<"nmcli -f GENERAL.CONNECTION device show wlan0">>]

\* xkblayout-state print %n: stdout.strip()
XkbReadings == { "", "English" }

XkbLayoutUpdate(attr, inp) ==
    [raised |-> FALSE,
     attr   |-> [attr EXCEPT !.full_text =
                   IF inp = "" THEN Str(<<>>) ELSE Str(<<inp>>)],
     cmds   |-> <<"xkblayout-state print %n">>]

Readings(cls) ==
    CASE cls = "TimeBlock"  -> ClockReadings
      [] cls = "IwdStatusBlock" -> IwdReadings
      [] cls = "NetworkManagerWIFIBlock" -> NmcliReadings
      [] cls = "XkbLayoutState" -> XkbReadings
      [] cls = "DateBlock"  -> ClockReadings
      [] cls = "AudioBlock" -> AudioReadings
      [] cls = "CpuBlock"   -> CpuReadings
      [] cls = "RamBlock"   -> RamReadings

\* What is wrong with a reading, in the words of the error taxonomy: the
\* volume query exits non-zero; /proc/cpuinfo has no cpu MHz line;
\* /proc/meminfo lacks a key RamBlock needs
Fault(cls, inp) ==
    CASE cls = "AudioBlock" /\ inp.rc # 0 -> "volume query failed"
      [] cls = "AudioBlock" /\ Upper(inp.mute) # "TRUE" /\ ~IsNumber(inp.volume)
           -> "volume not a number"
      [] cls = "CpuBlock" /\ ~(\E k \in 1..Len(inp) : HasCpuMHz(inp[k]))
           -> "no cpu MHz line"
      [] cls = "RamBlock" /\ RamKeys # SelectSeq(RamKeys, LAMBDA key :
                                          \E k \in 1..Len(inp) : inp[k][1] = key)
           -> "meminfo key missing"
      [] OTHER -> "none"

\* the update method of the block's class
Update(cls, attr, inp) ==
    CASE cls = "TimeBlock"  -> TimeUpdate(attr, inp)
      [] cls = "IwdStatusBlock" -> IwdUpdate(attr, inp)
      [] cls = "NetworkManagerWIFIBlock" -> NetworkManagerWIFIUpdate(attr, inp)
      [] cls = "XkbLayoutState" -> XkbLayoutUpdate(attr, inp)
      [] cls = "DateBlock"  -> DateUpdate(attr, inp)
      [] cls = "AudioBlock" -> AudioUpdate(attr, inp)
      [] cls = "CpuBlock"   -> CpuUpdate(attr, inp)
      [] cls = "RamBlock"   -> RamUpdate(attr, inp)


\* ------------------------------------------------------------- the state
\* What main passes to StatusLine: class, name and update_interval of every
\* block, in construction order.
Arg(cls, name, interval) ==
    [cls |-> cls, name |-> name, update_interval |-> interval]

Configs ==
    { <<>>,
      << Arg("TimeBlock", "time", 1), Arg("DateBlock", "date", 3) >>,
      << Arg("AudioBlock", "audio", 3), Arg("CpuBlock", "cpu", 1) >>,
      << Arg("RamBlock", "ram", 1), Arg("AudioBlock", "vol", 1) >>,
      << Arg("IwdStatusBlock", "wifi", 3), Arg("XkbLayoutState", "layout", 1) >>,
      << Arg("NetworkManagerWIFIBlock", "wlan", 3) >> }

VARIABLES
    cfg,          \* the blocks main was written with
    blocks,       \* the Block objects: cls, update_interval, last_update, attr
    pc,           \* where the main thread stands
    i,            \* StatusLine.print: index of elem in self.blocks
    statusline,   \* StatusLine.print: the list being collected (block indices,
                  \* as the list holds references to the blocks' dictionaries)
    line,         \* the string json.dumps returned, as the attribute sets
    out,          \* stdout: the kinds of the lines written
    lastRec,      \* the data record written last
    now,          \* time.time()
    tripped,      \* signals delivered whose Python handler has not run yet
    hstack,       \* frames of handle_stop_signal on the stack
    nsig,         \* signals delivered so far
    stopOpen,     \* a stop-signal was delivered and no cont-signal since
    staleAtResume,\* blocks collected before a pause that ended with them due
    call,         \* the get_attributes call that is refreshing: its block and
                  \* the time it read at line 58
    ret,          \* what get_attributes returned last, per block
    lastUpd,      \* the last update call: block, class, reading, outcome
    probe         \* a call of one method on its own: its arguments and result

vars == <<cfg, blocks, pc, i, statusline, line, out, lastRec, now, tripped,
          hstack, nsig, stopOpen, staleAtResume, call, ret, lastUpd, probe>>

mainVars == <<cfg, blocks, pc, i, statusline, line, out, lastRec, call, ret,
              lastUpd>>
sigVars  == <<tripped, hstack, nsig, stopOpen>>

NoAttr == [full_text |-> None, name |-> "?"]
NoRec  == [attrs |-> <<>>, tail |-> "", held |-> FALSE, stale |-> {}]
NoCall == [blk |-> 0, at |-> 0]
NoUpd  == [blk |-> 0, cls |-> "", fault |-> "none", raised |-> FALSE,
           cmds |-> <<>>]
NoProbe == [fn |-> "none"]

\* main, lines 225-226 done: both handlers are installed, nothing is built
Init ==
    /\ cfg \in Configs
    /\ blocks = <<>>
    /\ pc = "new_block"
    /\ i = 0
    /\ statusline = <<>>
    /\ line = <<>>
    /\ out = <<>>
    /\ lastRec = NoRec
    /\ now = 0
    /\ tripped = {}
    /\ hstack = <<>>
    /\ nsig = 0
    /\ stopOpen = FALSE
    /\ staleAtResume = {}
    /\ call = NoCall
    /\ ret = [k \in 1..Len(cfg) |-> NoAttr]
    /\ lastUpd = NoUpd
    /\ probe = NoProbe

\* The main thread executes Python code: no handler frame is on the stack and
\* no handler is waiting to run.
MainRuns == hstack = <<>> /\ tripped = {}

\* ---------------------------------------------------------------- Block
\* the dictionary of lines 25-43: the optional attributes are commented out
InitAttrWithShortText(name) ==
    [full_text |-> None, short_text |-> None, name |-> name]
InitAttr(name) == [full_text |-> None, name |-> name]

\* line 58: time.time() - self.last_update >= self.update_interval
IsStaleAbsolute(t, last_update, update_interval) == t >= update_interval
IsStaleSwapped(t, last_update, update_interval) ==
    last_update - t >= update_interval

IsStale(t, last_update, update_interval) ==
    t - last_update >= update_interval

\* Block.__init__, lines 23-43: the object exists, its cache is empty
BlockInit ==
    /\ MainRuns
    /\ pc = "new_block"
    /\ Len(blocks) < Len(cfg)
    /\ LET a == cfg[Len(blocks) + 1] IN
       blocks' = Append(blocks,
                   [cls |-> a.cls, update_interval |-> a.update_interval,
                    last_update |-> now, attr |-> InitAttr(a.name)])
    /\ pc' = "init_update"
    /\ UNCHANGED <<cfg, i, statusline, line, out, lastRec, now, call, ret,
                   lastUpd, staleAtResume>>
    /\ UNCHANGED <<sigVars, probe>>

\* a plausible slip: the constructor leaves the first update to the first
\* get_attributes call
BlockInitNoUpdate(d) ==
    /\ MainRuns
    /\ pc = "init_update"
    /\ d = 0
    /\ pc' = "new_block"
    /\ UNCHANGED <<cfg, blocks, i, statusline, line, out, lastRec, now, call,
                   ret, lastUpd, staleAtResume>>
    /\ UNCHANGED <<sigVars, probe>>

\* Block.__init__, line 44: the eager first update; an exception leaves the
\* constructor and main, and the object is never bound
BlockInitUpdate(d) ==
    /\ MainRuns
    /\ pc = "init_update"
    /\ now + d <= MaxTime
    /\ LET k == Len(blocks) IN
       \E inp \in Readings(blocks[k].cls) :
          LET r == Update(blocks[k].cls, blocks[k].attr, inp) IN
          /\ lastUpd' = [blk |-> k, cls |-> blocks[k].cls,
                         fault |-> Fault(blocks[k].cls, inp),
                         raised |-> r.raised, cmds |-> r.cmds]
          /\ IF r.raised
             THEN /\ blocks' = Front(blocks)
                  /\ pc' = "crashed"
             ELSE /\ blocks' = [blocks EXCEPT ![k].attr = r.attr]
                  /\ pc' = "new_block"
    /\ now' = now + d
    /\ UNCHANGED <<cfg, i, statusline, line, out, lastRec, call, ret,
                   staleAtResume>>
    /\ UNCHANGED <<sigVars, probe>>

\* ------------------------------------------------------------ StatusLine
\* StatusLine.__init__, lines 190-193: every element is a Block
NewStatusLine ==
    /\ MainRuns
    /\ pc = "new_block"
    /\ Len(blocks) = Len(cfg)
    /\ pc' = "header"
    /\ UNCHANGED <<cfg, blocks, i, statusline, line, out, lastRec, now, call,
                   ret, lastUpd, staleAtResume>>
    /\ UNCHANGED <<sigVars, probe>>

\* line 199: statusline.append(...)
CollectFront(sl, k) == <<k>> \o sl
Collect(sl, k) == Append(sl, k)

\* a plausible slip: the loop ends one element early
AfterElemEarly(k) == IF k + 1 < Len(blocks) THEN "ga_check" ELSE "dumps"

\* where the for loop of line 198 goes after element k
AfterElem(k) == IF k < Len(blocks) THEN "ga_check" ELSE "dumps"

\* line 197 and the first turn of line 198
PrintBegin ==
    /\ MainRuns
    /\ pc = "print_begin"
    /\ statusline' = <<>>
    /\ i' = 1
    /\ pc' = AfterElem(0)
    /\ staleAtResume' = {}
    /\ UNCHANGED <<cfg, blocks, line, out, lastRec, now, call, ret, lastUpd>>
    /\ UNCHANGED <<sigVars, probe>>

\* get_attributes, line 58, and for a fresh block line 61 and the append
GetAttrCheck ==
    /\ MainRuns
    /\ pc = "ga_check"
    /\ IF IsStale(now, blocks[i].last_update, blocks[i].update_interval)
       THEN /\ pc' = "ga_update"
            /\ call' = [blk |-> i, at |-> now]
            /\ UNCHANGED <<statusline, i, ret>>
       ELSE /\ call' = NoCall
            /\ statusline' = Collect(statusline, i)
            /\ ret' = [ret EXCEPT ![i] = blocks[i].attr]
            /\ pc' = AfterElem(i)
            /\ i' = i + 1
    /\ UNCHANGED <<cfg, blocks, line, out, lastRec, now, lastUpd,
                   staleAtResume>>
    /\ UNCHANGED <<sigVars, probe>>

\* a plausible slip: last_update is set before the query, as in __init__
GetAttrUpdateStampFirst(d) ==
    /\ MainRuns
    /\ pc = "ga_update"
    /\ now + d <= MaxTime
    /\ \E inp \in Readings(blocks[i].cls) :
          LET r == Update(blocks[i].cls, blocks[i].attr, inp) IN
          /\ lastUpd' = [blk |-> i, cls |-> blocks[i].cls,
                         fault |-> Fault(blocks[i].cls, inp),
                         raised |-> r.raised, cmds |-> r.cmds]
          /\ blocks' = [blocks EXCEPT ![i].attr = r.attr,
                                      ![i].last_update = now]
          /\ pc' = IF r.raised THEN "crashed" ELSE "ga_stamp"
    /\ now' = now + d
    /\ UNCHANGED <<cfg, i, statusline, line, out, lastRec, call, ret,
                   staleAtResume>>
    /\ UNCHANGED <<sigVars, probe>>

\* get_attributes, line 59: the query takes d; an exception leaves
\* get_attributes, print and main
GetAttrUpdate(d) ==
    /\ MainRuns
    /\ pc = "ga_update"
    /\ now + d <= MaxTime
    /\ \E inp \in Readings(blocks[i].cls) :
          LET r == Update(blocks[i].cls, blocks[i].attr, inp) IN
          /\ lastUpd' = [blk |-> i, cls |-> blocks[i].cls,
                         fault |-> Fault(blocks[i].cls, inp),
                         raised |-> r.raised, cmds |-> r.cmds]
          /\ blocks' = [blocks EXCEPT ![i].attr = r.attr]
          /\ pc' = IF r.raised THEN "crashed" ELSE "ga_stamp"
    /\ now' = now + d
    /\ UNCHANGED <<cfg, i, statusline, line, out, lastRec, call, ret,
                   staleAtResume>>
    /\ UNCHANGED <<sigVars, probe>>

\* line 59, self.update(): the query never returns (subprocess.run waits for
\* a command that does not end, a read blocks).  get_attributes, print and
\* main wait with it; signal handlers still run.
QueryHangs ==
    /\ MainRuns
    /\ pc = "ga_update"
    /\ pc' = "hung"
    /\ UNCHANGED <<cfg, blocks, i, statusline, line, out, lastRec, now, call,
                   ret, lastUpd, staleAtResume>>
    /\ UNCHANGED <<sigVars, probe>>

\* line 60: self.last_update = time.time(), a second reading of the clock,
\* taken after update has returned (checked is the reading of line 58)
StampAtCheck(checked, clock) == checked
StampTime(checked, clock) == clock

\* get_attributes, lines 60-61, and the append of line 199
GetAttrStamp ==
    /\ MainRuns
    /\ pc = "ga_stamp"
    /\ blocks' = [blocks EXCEPT ![i].last_update = StampTime(call.at, now)]
    /\ statusline' = Collect(statusline, i)
    /\ ret' = [ret EXCEPT ![i] = blocks[i].attr]
    /\ pc' = AfterElem(i)
    /\ i' = i + 1
    /\ call' = NoCall
    /\ UNCHANGED <<cfg, line, out, lastRec, now, lastUpd, staleAtResume>>
    /\ UNCHANGED <<sigVars, probe>>

\* json.dumps(statusline): the dictionaries as they are now
Dumps(sl, blks) == [k \in 1..Len(sl) |-> blks[sl[k]].attr]

\* line 200, up to the call of the builtin print
PrintDumps ==
    /\ MainRuns
    /\ pc = "dumps"
    /\ line' = Dumps(statusline, blocks)
    /\ pc' = "in_print"
    /\ UNCHANGED <<cfg, blocks, i, statusline, out, lastRec, now, call, ret,
                   lastUpd, staleAtResume>>
    /\ UNCHANGED <<sigVars, probe>>

\* line 200, inside print: the record reaches stdout.  This is C code: a
\* signal delivered by now waits for the call to return.
PrintWrite ==
    /\ hstack = <<>>
    /\ pc = "in_print"
    /\ out' = Append(out, "record")
    /\ lastRec' = [attrs |-> line, tail |-> ",", held |-> stopOpen,
                   stale |-> staleAtResume]
    /\ statusline' = <<>>
    /\ staleAtResume' = {}
    /\ pc' = "sleep"
    /\ UNCHANGED <<cfg, blocks, i, line, now, call, ret, lastUpd>>
    /\ UNCHANGED <<sigVars, probe>>

\* ------------------------------------------------------------------ main
\* line 230
PrintHeader ==
    /\ MainRuns
    /\ pc = "header"
    /\ out' = Append(out, "header")
    /\ pc' = "bracket"
    /\ UNCHANGED <<cfg, blocks, i, statusline, line, lastRec, now, call, ret,
                   lastUpd, staleAtResume>>
    /\ UNCHANGED <<sigVars, probe>>

\* line 231
PrintBracket ==
    /\ MainRuns
    /\ pc = "bracket"
    /\ out' = Append(out, "[")
    /\ pc' = "print_begin"
    /\ UNCHANGED <<cfg, blocks, i, statusline, line, lastRec, now, call, ret,
                   lastUpd, staleAtResume>>
    /\ UNCHANGED <<sigVars, probe>>

\* line 232: where while True leads back to
LoopFromHeader == "header"
LoopLeft == "exit"
LoopTarget == "print_begin"

\* line 234 and the jump of line 232
Sleep ==
    /\ MainRuns
    /\ pc = "sleep"
    /\ now + Tick <= MaxTime
    /\ now' = now + Tick
    /\ pc' = LoopTarget
    /\ UNCHANGED <<cfg, blocks, i, statusline, line, out, lastRec, call, ret,
                   lastUpd, staleAtResume>>
    /\ UNCHANGED <<sigVars, probe>>

\* --------------------------------------------------------------- signals
Alive == pc # "crashed"

InSigwait == hstack # <<>> /\ Last(hstack) = "sigwait"

\* The kernel delivers the stop-signal (SIGUSR1): the interpreter's C-level
\* handler sets the flag.  A sigwait in progress is restarted.
DeliverStop ==
    /\ Alive
    /\ nsig < MaxSignals
    /\ nsig' = nsig + 1
    /\ tripped' = tripped \cup {"SIGUSR1"}
    /\ stopOpen' = TRUE
    /\ UNCHANGED <<hstack, now, staleAtResume>>
    /\ UNCHANGED <<mainVars, probe>>

\* The pause ends when the last frame of handle_stop_signal returns: the
\* blocks print has collected so far and that are due by now
DueCollected(sl, depth) ==
    IF depth > 1 THEN staleAtResume
    ELSE staleAtResume \cup
         { k \in 1..Len(blocks) :
              /\ \E j \in 1..Len(sl) : sl[j] = k
              /\ now - blocks[k].last_update >= blocks[k].update_interval }

\* The kernel delivers the cont-signal (SIGCONT) while no sigwait is in
\* progress: the C-level handler sets the flag for handle_cont_signal.
DeliverCont ==
    /\ Alive
    /\ ~InSigwait
    /\ nsig < MaxSignals
    /\ nsig' = nsig + 1
    /\ tripped' = tripped \cup {"SIGCONT"}
    /\ stopOpen' = FALSE
    /\ UNCHANGED <<hstack, now, staleAtResume>>
    /\ UNCHANGED <<mainVars, probe>>

\* a plausible slip: the handler marks every block due before it returns, so
\* that the record after the pause is fresh
SigwaitReturnsMarkingDue ==
    /\ Alive
    /\ InSigwait
    /\ nsig < MaxSignals
    /\ nsig' = nsig + 1
    /\ stopOpen' = FALSE
    /\ staleAtResume' = DueCollected(statusline, Len(hstack))
    /\ hstack' = Front(hstack)
    /\ blocks' = [k \in 1..Len(blocks) |->
                    [blocks[k] EXCEPT !.last_update = 0]]
    /\ UNCHANGED <<tripped, now, probe>>
    /\ UNCHANGED <<cfg, pc, i, statusline, line, out, lastRec, call, ret,
                   lastUpd>>

\* The cont-signal arrives during signal.sigwait, line 208: the kernel hands
\* it to the waiting call (rt_sigtimedwait dequeues a signal of its set before
\* any handler is run), sigwait returns and handle_stop_signal returns.
SigwaitReturns ==
    /\ Alive
    /\ InSigwait
    /\ nsig < MaxSignals
    /\ nsig' = nsig + 1
    /\ stopOpen' = FALSE
    /\ staleAtResume' = DueCollected(statusline, Len(hstack))
    /\ hstack' = Front(hstack)
    /\ UNCHANGED <<tripped, now>>
    /\ UNCHANGED <<mainVars, probe>>

\* The interpreter may run Python handlers: it is between two bytecodes of
\* main or of handle_stop_signal before its sigwait.
AtCheckpoint ==
    /\ Alive
    /\ pc # "in_print"
    /\ ~InSigwait

\* handle_stop_signal is called, lines 202-207
RunStopHandler ==
    /\ AtCheckpoint
    /\ "SIGUSR1" \in tripped
    /\ tripped' = tripped \ {"SIGUSR1"}
    /\ hstack' = Append(hstack, "entry")
    /\ UNCHANGED <<nsig, stopOpen, now, staleAtResume>>
    /\ UNCHANGED <<mainVars, probe>>

\* handle_cont_signal, lines 210-214: pass.  Handlers run in the order of
\* the signal numbers, SIGUSR1 (10) before SIGCONT (18).
RunContHandler ==
    /\ AtCheckpoint
    /\ "SIGCONT" \in tripped
    /\ "SIGUSR1" \notin tripped
    /\ tripped' = tripped \ {"SIGCONT"}
    /\ UNCHANGED <<hstack, nsig, stopOpen, now, staleAtResume>>
    /\ UNCHANGED <<mainVars, probe>>

\* handle_stop_signal, line 208: signal.sigwait({SIGCONT}) blocks
CallSigwait ==
    /\ Alive
    /\ hstack # <<>>
    /\ Last(hstack) = "entry"
    /\ tripped = {}
    /\ hstack' = [hstack EXCEPT ![Len(hstack)] = "sigwait"]
    /\ UNCHANGED <<tripped, nsig, stopOpen, now, staleAtResume>>
    /\ UNCHANGED <<mainVars, probe>>

\* time goes by while the process is blocked in sigwait
PauseTime ==
    /\ Alive
    /\ InSigwait
    /\ now < MaxTime
    /\ now' = now + 1
    /\ UNCHANGED <<tripped, hstack, nsig, stopOpen, staleAtResume>>
    /\ UNCHANGED <<mainVars, probe>>

\* ------------------------------------------------------- specifications
Next ==
    \/ BlockInit
    \/ \E d \in 0..MaxDelay : BlockInitUpdate(d)
    \/ NewStatusLine
    \/ PrintHeader
    \/ PrintBracket
    \/ PrintBegin
    \/ GetAttrCheck
    \/ \E d \in 0..MaxDelay : GetAttrUpdate(d)
    \/ GetAttrStamp
    \/ PrintDumps
    \/ PrintWrite
    \/ Sleep
    \/ DeliverStop
    \/ DeliverCont
    \/ SigwaitReturns
    \/ RunStopHandler
    \/ RunContHandler
    \/ CallSigwait
    \/ PauseTime

Spec == Init /\ [][Next]_vars

\* The loop RUNNING and every query returning at once: no signal is
\* delivered and no update takes time.
NextRunning ==
    \/ BlockInit
    \/ BlockInitUpdate(0)
    \/ NewStatusLine
    \/ PrintHeader
    \/ PrintBracket
    \/ PrintBegin
    \/ GetAttrCheck
    \/ GetAttrUpdate(0)
    \/ GetAttrStamp
    \/ PrintDumps
    \/ PrintWrite
    \/ Sleep

SpecRunning == Init /\ [][NextRunning]_vars

\* The program with its signals under fair scheduling.  The interpreter
\* goes on with main while no handler is due, runs a handler that is due and
\* lets handle_stop_signal reach its sigwait; and a process that waits in
\* sigwait is sent a cont-signal in the end, as long as signals are left.
\* Queries return at once or not at all (QueryHangs); time passes in sleep
\* and in pauses.
MainStep == NextRunning

HandlerStep ==
    \/ RunStopHandler
    \/ RunContHandler
    \/ CallSigwait

NextFair ==
    \/ MainStep
    \/ HandlerStep
    \/ QueryHangs
    \/ DeliverStop
    \/ DeliverCont
    \/ SigwaitReturns
    \/ PauseTime

SpecFair ==
    /\ Init
    /\ [][NextFair]_vars
    /\ WF_vars(MainStep)
    /\ WF_vars(HandlerStep)
    /\ WF_vars(SigwaitReturns)

\* ------------------------------------------- one method called on its own
\* The specifications below call one method with every argument of a
\* bounded set.  The call is held in probe; the program of main does not run.
Detached ==
    /\ cfg = <<>>
    /\ blocks = <<>>
    /\ pc = "detached"
    /\ i = 0
    /\ statusline = <<>>
    /\ line = <<>>
    /\ out = <<>>
    /\ lastRec = NoRec
    /\ now = 0
    /\ tripped = {}
    /\ hstack = <<>>
    /\ nsig = 0
    /\ stopOpen = FALSE
    /\ staleAtResume = {}
    /\ call = NoCall
    /\ ret = <<>>
    /\ lastUpd = NoUpd

programVars == <<mainVars, sigVars, now, staleAtResume>>

\* StatusLine(*blocks): the arguments are instances of Block subclasses or
\* values of other types.
MaxArgs == 3
BlockClasses == {"TimeBlock", "DateBlock", "IwdStatusBlock",
                 "NetworkManagerWIFIBlock", "AudioBlock", "CpuBlock",
                 "RamBlock", "XkbLayoutState"}
ArgTypes == {"TimeBlock", "AudioBlock", "str", "NoneType"}
ArgLists == UNION {[1..n -> ArgTypes] : n \in 0..MaxArgs}

\* isinstance(elem, Block)
IsInstanceFirstOnly(args, k) == args[1] \in BlockClasses
IsInstance(args, k) == args[k] \in BlockClasses

NoObject == [made |-> FALSE, blocks |-> <<>>]

InitStatusLine ==
    /\ Detached
    /\ \E args \in ArgLists :
         probe = [fn |-> "StatusLine.__init__", args |-> args, k |-> 1,
                  at |-> "for", self |-> NoObject, printed |-> <<>>]

\* for elem in blocks: if not isinstance(elem, Block): ... (the test passes)
StatusLineCheckElem ==
    /\ probe.fn = "StatusLine.__init__" /\ probe.at = "for"
    /\ probe.k <= Len(probe.args)
    /\ IsInstance(probe.args, probe.k)
    /\ probe' = [probe EXCEPT !.k = probe.k + 1]
    /\ UNCHANGED programVars

\* raise ValueError(...): the constructor is left, no object is returned
StatusLineRaise ==
    /\ probe.fn = "StatusLine.__init__" /\ probe.at = "for"
    /\ probe.k <= Len(probe.args)
    /\ ~IsInstance(probe.args, probe.k)
    /\ probe' = [probe EXCEPT !.at = "ValueError"]
    /\ UNCHANGED programVars

\* self.blocks = blocks
StatusLineBind ==
    /\ probe.fn = "StatusLine.__init__" /\ probe.at = "for"
    /\ probe.k > Len(probe.args)
    /\ probe' = [probe EXCEPT !.at = "returned",
                              !.self = [made |-> TRUE, blocks |-> probe.args]]
    /\ UNCHANGED programVars

\* StatusLine.print on the object: it reads self.blocks, in order.
StatusLineUse ==
    /\ probe.fn = "StatusLine.__init__" /\ probe.at = "returned"
    /\ probe.printed = <<>> /\ probe.self.blocks # <<>>
    /\ probe' = [probe EXCEPT !.printed = probe.self.blocks]
    /\ UNCHANGED programVars

NextStatusLine ==
    \/ StatusLineCheckElem
    \/ StatusLineRaise
    \/ StatusLineBind
    \/ StatusLineUse

SpecStatusLine == InitStatusLine /\ [][NextStatusLine]_vars

\* AudioBlock.update with every volume the mixer can print and both mute
\* outputs, and with the volume query failing.
AudioInputs ==
    {[rc |-> 1, volume |-> "", mute |-> ""]} \cup
    {[rc |-> 0, volume |-> ToString(v), mute |-> m] :
        v \in 0..MaxVolume, m \in {"true", "false"}}

NoResult(name) == [raised |-> FALSE, attr |-> InitAttr(name), cmds |-> <<>>]

InitAudio ==
    /\ Detached
    /\ \E inp \in AudioInputs :
         probe = [fn |-> "AudioBlock.update", inp |-> inp, done |-> FALSE,
                  res |-> NoResult("vol")]

AudioCall ==
    /\ probe.fn = "AudioBlock.update" /\ ~probe.done
    /\ probe' = [probe EXCEPT !.done = TRUE,
                              !.res = AudioUpdate(probe.res.attr, probe.inp)]
    /\ UNCHANGED programVars

NextAudio == AudioCall

SpecAudio == InitAudio /\ [][NextAudio]_vars

\* IwdStatusBlock.update and NetworkManagerWIFIBlock.update with every
\* command output of up to MaxLines lines.  A line is its whitespace-separated
\* tokens; stdout.strip().splitlines() leaves no blank line at either end, so
\* with these bounds every line has a token.
MaxLines  == 2
MaxTokens == 3
NetLines ==
    UNION {[1..n -> {"network", "home"}] : n \in 1..MaxTokens} \cup
    { <<"Connected", "network", "home">>,
      <<"GENERAL.CONNECTION:", "home">>,
      <<"GENERAL.CONNECTION:", "--">> }
NetOutputs == UNION {[1..n -> NetLines] : n \in 0..MaxLines}
NetClasses == {"IwdStatusBlock", "NetworkManagerWIFIBlock"}

InitNet ==
    /\ Detached
    /\ \E cls \in NetClasses, lines \in NetOutputs :
         probe = [fn |-> "update", cls |-> cls, inp |-> lines, done |-> FALSE,
                  res |-> NoResult("wifi")]

NetCall ==
    /\ probe.fn = "update" /\ ~probe.done
    /\ probe' = [probe EXCEPT !.done = TRUE,
                   !.res = Update(probe.cls, probe.res.attr, probe.inp)]
    /\ UNCHANGED programVars

NextNet == NetCall

SpecNet == InitNet /\ [][NextNet]_vars

\* ------------------------------------------------------------ the claims
Records == Len(SelectSeq(out, LAMBDA ln : ln = "record"))

Constructed(k) ==
    k \in 1..Len(blocks) /\ ~(pc = "init_update" /\ k = Len(blocks))

LoopPcs == {"print_begin", "ga_check", "ga_update", "ga_stamp", "dumps",
            "in_print", "sleep"}

Fallback == Str(<<"Could not find audio">>)

\* C1: a block's cache and last_update change only inside a get_attributes
\* call whose time read at line 58 is at least update_interval after
\* last_update; a call that reads an earlier time queries nothing, changes no
\* block and returns what the previous call on that block returned.
C1_RefreshOnlyWhenStale ==
    [][ /\ \A k \in 1..Len(blocks) :
             (Constructed(k) /\ k <= Len(blocks') /\ blocks'[k] # blocks[k])
             => /\ call.blk = k
                /\ call.at - blocks[k].last_update >= blocks[k].update_interval
        /\ ( /\ pc = "ga_check"
             /\ pc' # pc
             /\ now - blocks[i].last_update < blocks[i].update_interval )
           => /\ blocks' = blocks
              /\ lastUpd' = lastUpd
              /\ pc' \notin {"ga_update", "crashed"}
              /\ ret[i] # NoAttr => ret'[i] = ret[i]
      ]_vars

\* C1 happens: with no signal delivered, the block collected last was called
\* before it was due, after an earlier call, and returned its cache.
C1_Witness ==
    /\ nsig = 0
    /\ pc \in {"ga_check", "dumps"}
    /\ statusline # <<>>
    /\ Records >= 1
    /\ LET k == Last(statusline) IN
       /\ blocks[k].last_update < now
       /\ now - blocks[k].last_update < blocks[k].update_interval
       /\ ret[k] = blocks[k].attr

\* C2: the record just written has one entry per block given to the
\* constructor, the k-th entry being the attributes of the k-th block.
C2_RecordKeepsOrder ==
    /\ Records >= 1 =>
          /\ Len(lastRec.attrs) = Len(cfg)
          /\ \A k \in 1..Len(cfg) : lastRec.attrs[k].name = cfg[k].name
    /\ pc = "sleep" =>
          lastRec.attrs = [k \in 1..Len(cfg) |->
                             [full_text |-> blocks[k].attr.full_text,
                              name |-> cfg[k].name]]

C2_Witness ==
    /\ pc = "sleep"
    /\ Records >= 2
    /\ Len(cfg) = 2
    /\ lastRec.attrs[1] # lastRec.attrs[2]

\* C3: the header is the first line written and no other line is a header;
\* the '[' line is the second line and no other; once main is past line 230
\* the header is there.
C3_HeaderOnceFirst ==
    /\ \A k \in 1..Len(out) : (out[k] = "header") <=> (k = 1)
    /\ \A k \in 1..Len(out) : (out[k] = "[") <=> (k = 2)
    /\ pc \in LoopPcs \cup {"bracket"} => Len(out) >= 1

\* C3 happens: records were written, one of them after a pause taken inside
\* print.
C3_Witness ==
    /\ Records >= 2
    /\ lastRec.stale # {}
    /\ out[1] = "header"

\* C4: no record is written while a stop-signal has been delivered and no
\* cont-signal after it.
C4_NoRecordWhileStopped == lastRec.held = FALSE

\* C5: the first record written after a pause carries, for no block that
\* was due when the pause ended, attributes collected before the pause.
C5_FreshAfterPause == lastRec.stale = {}

\* C6: the process is not left blocked in sigwait once every stop-signal
\* delivered has been followed by a cont-signal.
C6_ContEndsPause == InSigwait => stopOpen

\* C7: with the loop running and queries taking no time, no block is ever
\* more than update_interval + Tick past the time it became due.
C7_StalenessBound ==
    \A k \in 1..Len(blocks) :
        Constructed(k) =>
            now - (blocks[k].last_update + blocks[k].update_interval)
               <= blocks[k].update_interval + Tick

\* C7 happens: a block refreshed in two consecutive ticks is overdue again.
C7_Witness ==
    \E k \in 1..Len(blocks) :
        /\ blocks[k].last_update >= 2 * Tick
        /\ now > blocks[k].last_update + blocks[k].update_interval

\* C8: every constructed block has a full_text that is not None, and so has
\* every entry of a record.
C8_CacheNeverEmpty ==
    /\ \A k \in 1..Len(blocks) :
          Constructed(k) => blocks[k].attr.full_text # None
    /\ \A k \in 1..Len(lastRec.attrs) : lastRec.attrs[k].full_text # None

C8_Witness ==
    /\ pc = "new_block"
    /\ Len(blocks) = 1
    /\ Len(cfg) = 2
    /\ blocks[1].attr.full_text # None

\* C9: when the volume query exits non-zero, update raises nothing, runs no
\* mute query and stores the fallback text; main goes on, and a record written
\* next carries the fallback text.
C9_AudioFallback ==
    lastUpd.fault = "volume query failed"
    => /\ ~lastUpd.raised
       /\ lastUpd.cmds = <<"pamixer --get-volume">>
       /\ pc # "crashed"
       /\ blocks[lastUpd.blk].attr.full_text = Fallback
       /\ pc = "sleep" => lastRec.attrs[lastUpd.blk].full_text = Fallback

\* C9 happens: the volume query failed in a refresh of the loop, and the
\* record of that tick is out.
C9_Witness ==
    /\ lastUpd.fault = "volume query failed"
    /\ lastUpd.blk = 2
    /\ blocks[2].last_update = now
    /\ pc = "sleep"
    /\ Records >= 2

\* C10: a reading without a cpu MHz line, or without a key RamBlock needs,
\* makes update raise and ends main; the step that ends main writes nothing
\* and nothing is written afterwards.
C10_MalformedIsFatal ==
    /\ [](lastUpd.fault \in {"no cpu MHz line", "meminfo key missing"}
          => (lastUpd.raised /\ pc = "crashed"))
    /\ [][pc' = "crashed" => out' = out]_vars

\* C10 happens: a refresh of the loop raised after records had been written.
C10_Witness ==
    /\ pc = "crashed"
    /\ lastUpd.fault = "meminfo key missing"
    /\ Records >= 1


\* C11: StatusLine(*blocks) raises ValueError and yields no object exactly
\* when some argument, at whatever position, is not a Block; with Blocks only
\* (the empty list too) it returns an object whose blocks are the arguments
\* in their order, and they stay so while the object is used.
C11_ConstructorRejectsNonBlock ==
    /\ [](probe.at = "ValueError" =>
            /\ \E j \in 1..Len(probe.args) : probe.args[j] \notin BlockClasses
            /\ probe.self = NoObject)
    /\ [](probe.at = "returned" =>
            /\ \A j \in 1..Len(probe.args) : probe.args[j] \in BlockClasses
            /\ probe.self = [made |-> TRUE, blocks |-> probe.args])
    /\ [](probe.at = "for" =>
            /\ probe.self = NoObject
            /\ ENABLED NextStatusLine)
    /\ [][probe.self.made => probe'.self = probe.self]_vars

C11_Witness ==
    /\ probe.fn = "StatusLine.__init__"
    /\ probe.at = "ValueError"
    /\ probe.k = 3
    /\ Len(probe.args) = 3


\* C12: every line after the header and '[' is a data record: an array with
\* one object per block, each object with the keys full_text and name and no
\* other, name being the name given at construction, and a single ',' after
\* the array on the same line; no line closes the outer array.
C12_RecordShape ==
    /\ \A n \in 3..Len(out) : out[n] = "record"
    /\ \A n \in 1..Len(out) : out[n] # "]"
    /\ Records >= 1 =>
         /\ lastRec.tail = ","
         /\ Len(lastRec.attrs) = Len(cfg)
         /\ \A k \in 1..Len(cfg) :
              /\ DOMAIN lastRec.attrs[k] = {"full_text", "name"}
              /\ lastRec.attrs[k].name = cfg[k].name

C12_Witness ==
    /\ Records >= 2
    /\ Len(cfg) = 2
    /\ out[Len(out)] = "record"
    /\ lastRec.attrs[2].name = "vol"

\* The icon the volume and the mute flag select: muted, else low below
\* 33.3, mid below 66.3, else high.
IconFor(mute, v) ==
    IF mute THEN "U+1F507"
    ELSE IF 10 * v < 333 THEN "U+1F508"
    ELSE IF 10 * v < 663 THEN "U+1F509"
    ELSE "U+1F50A"

AudioSucceeded ==
    /\ probe.fn = "AudioBlock.update" /\ probe.done /\ probe.inp.rc = 0

\* C13 as stated: for every volume 0..100 and every mute flag, full_text is
\* the icon, the volume string and '%' with nothing in between.
C13_IconVolumePercent ==
    AudioSucceeded =>
        /\ ~probe.res.raised
        /\ probe.res.attr.full_text =
             Str(<<IconFor(probe.inp.mute = "true", IntOf(probe.inp.volume)),
                   probe.inp.volume, "%">>)

\* C13, amended: for every volume 0..100 and every mute flag, full_text is
\* the icon, ONE SPACE, the volume string unchanged and '%'; the icon is the
\* muted one when muted, else low below 33.3, mid below 66.3, else high.
C13_IconSpaceVolumePercent ==
    AudioSucceeded =>
        /\ ~probe.res.raised
        /\ probe.res.attr.full_text =
             Str(<<IconFor(probe.inp.mute = "true", IntOf(probe.inp.volume)),
                   " ", probe.inp.volume, "%">>)

C13_Witness ==
    /\ AudioSucceeded
    /\ probe.inp.volume = "33"
    /\ probe.inp.mute = "false"
    /\ probe.res.attr.full_text = Str(<<"U+1F508", " ", "33", "%">>)

\* The marker of the network name in a line of the command's output: the
\* word network for iwctl, the field name for nmcli.
Marked(cls, ln) ==
    IF cls = "IwdStatusBlock" THEN HasNetwork(ln)
    ELSE \E k \in 1..Len(ln) : ln[k] = "GENERAL.CONNECTION:"

NoWlan == Str(<<"No wlan connection">>)

NetDone == probe.fn = "update" /\ probe.done

\* C14 as stated: for both variants and every output, update does not raise;
\* full_text is the third token of a line that contains the marker if there
\* is such a line, and 'No wlan connection' otherwise.
C14_ThirdTokenOfMarkedLine ==
    NetDone =>
        /\ ~probe.res.raised
        /\ IF \E n \in 1..Len(probe.inp) : Marked(probe.cls, probe.inp[n])
           THEN \E n \in 1..Len(probe.inp) :
                   /\ Marked(probe.cls, probe.inp[n])
                   /\ Len(probe.inp[n]) >= 3
                   /\ probe.res.attr.full_text = Str(<<probe.inp[n][3]>>)
           ELSE probe.res.attr.full_text = NoWlan

\* C14, amended.  IwdStatusBlock: with no line that contains 'network',
\* full_text is 'No wlan connection'; if every such line has three tokens,
\* it is the third token of the LAST such line; if one has fewer, update
\* raises and the cache is as before.  NetworkManagerWIFIBlock: update never
\* raises; full_text is the LAST token of the whole output, whatever the
\* line, and 'No wlan connection' only when the output has no token.
C14_NetworkText ==
    NetDone =>
        LET lines == probe.inp
            text  == probe.res.attr.full_text
            marks == {n \in 1..Len(lines) : HasNetwork(lines[n])}
        IN  IF probe.cls = "IwdStatusBlock"
            THEN IF \E n \in marks : Len(lines[n]) < 3
                 THEN probe.res.raised /\ text = None
                 ELSE /\ ~probe.res.raised
                      /\ marks = {} => text = NoWlan
                      /\ \A n \in marks :
                            (\A m \in marks : m <= n) => text = Str(<<lines[n][3]>>)
            ELSE /\ ~probe.res.raised
                 /\ lines = <<>> => text = NoWlan
                 /\ lines # <<>> => text = Str(<<Last(Last(lines))>>)

C14_Witness ==
    /\ NetDone
    /\ probe.cls = "IwdStatusBlock"
    /\ probe.inp = << <<"Connected", "network", "home">>,
                      <<"network", "home", "network">> >>
    /\ probe.res.attr.full_text = Str(<<"network">>)

\* line 60 is executed: get_attributes leaves "ga_stamp"
Stamps == pc = "ga_stamp" /\ pc' # "ga_stamp"

\* C15 as stated: after a refresh, last_update is the time at which the
\* staleness was checked, also when the query takes time.
C15_StampIsCheckTime ==
    [][Stamps => blocks'[i].last_update = call.at]_vars

\* C15, amended: after a refresh, last_update is the time read at line 60,
\* when update has returned; it is never earlier than the time of the check
\* and is later whenever time passed in between.
C15_StampIsTimeAfterUpdate ==
    [][Stamps => /\ blocks'[i].last_update = now
                 /\ blocks'[i].last_update >= call.at
                 /\ now' = now
                 /\ blocks'[i].attr = blocks[i].attr]_vars

C15_Witness ==
    /\ pc = "ga_stamp"
    /\ MainRuns
    /\ call.blk = i
    /\ now > call.at
    /\ hstack = <<>> /\ nsig = 0
    /\ Records >= 1

\* C16: from the entry of handle_stop_signal to its return, no block's
\* cached attributes or last_update change, no data source is queried and
\* print and get_attributes do not advance, wherever main was interrupted.
C16_StopHandlerFrame ==
    [][(hstack # <<>> \/ hstack' # <<>>) =>
          /\ blocks' = blocks
          /\ lastUpd' = lastUpd
          /\ UNCHANGED <<pc, i, statusline, call, ret, out>>]_vars

C16_Witness ==
    /\ hstack = <<>>
    /\ nsig = 2
    /\ pc = "ga_update"
    /\ call.blk = 2
    /\ now > call.at
    /\ blocks[2].attr.full_text # None

\* the blocks 1..n in their order
UpTo(n) == [k \in 1..n |-> k]

\* C17: get_attributes is called on one block after the other; while block
\* i is checked or refreshed exactly the blocks before it have returned; a
\* record is serialised and written only from all blocks; and once a query
\* does not return, nothing more is written and no other block is queried.
C17_SequentialRefresh ==
    /\ [](pc \in {"ga_check", "ga_update", "ga_stamp", "hung"} =>
            /\ i \in 1..Len(blocks)
            /\ statusline = UpTo(i - 1))
    /\ [](pc = "dumps" => statusline = UpTo(Len(blocks)))
    /\ [](pc = "in_print" => Len(line) = Len(blocks))
    /\ [][out' # out /\ Last(out') = "record" =>
             /\ statusline = UpTo(Len(blocks))
             /\ Len(lastRec'.attrs) = Len(blocks)]_vars
    /\ [][pc = "hung" =>
             /\ pc' = "hung"
             /\ UNCHANGED <<out, blocks, lastUpd, statusline, i, call, ret>>]_vars

C17_Witness ==
    /\ pc = "hung"
    /\ i = 1
    /\ Len(blocks) = 2
    /\ Records >= 1
    /\ InSigwait

\* update raises inside get_attributes
RefreshFails == pc = "ga_update" /\ pc' = "crashed"

\* C19: when update raises inside get_attributes, for any block class, the
\* block's full_text, name and last_update are what they were before the
\* call, nothing was returned or collected for it, and the block is still
\* due: a later get_attributes on it would call update again.
C19_FailedRefreshLeavesBlock ==
    [][RefreshFails =>
          /\ lastUpd'.raised /\ lastUpd'.blk = i
          /\ blocks' = blocks
          /\ ret' = ret /\ statusline' = statusline
          /\ \A t \in now'..MaxTime :
                IsStale(t, blocks'[i].last_update, blocks'[i].update_interval)]_vars

C19_Witness ==
    /\ pc = "crashed"
    /\ lastUpd.raised
    /\ lastUpd.cls = "AudioBlock"
    /\ lastUpd.blk = 2
    /\ Len(blocks) = 2
    /\ blocks[2].attr.full_text = Fallback
    /\ blocks[2].last_update < now
    /\ Records >= 2

\* What ends normal operation, or the model's clock: an exception, a query
\* that does not return, a pause that no cont-signal ends, the last tick.
Excused ==
    \/ pc \in {"crashed", "hung"}
    \/ InSigwait /\ nsig = MaxSignals
    \/ now + Tick > MaxTime

\* C18: as long as every query returns without error and every pause is
\* ended by a cont-signal, main does not stop: again and again it writes a
\* record and again and again it starts the next tick; each record is
\* followed by one sleep of Tick and each sleep by the next print.
C18_LoopNeverEnds ==
    /\ []<>(pc = "sleep" \/ Excused)
    /\ []<>(pc = "print_begin" \/ Excused)
    /\ [][out' # out /\ Last(out') = "record" => pc' = "sleep"]_vars
    /\ [][pc = "sleep" /\ pc' # "sleep" =>
             /\ pc' = "print_begin"
             /\ now' = now + Tick
             /\ out' = out]_vars
    /\ [](pc = "sleep" => Records >= 1 /\ Last(out) = "record")

C18_Witness ==
    /\ pc = "sleep"
    /\ Records >= 3
    /\ nsig = MaxSignals
    /\ hstack = <<>>
    /\ now + Tick > MaxTime

=============================================================================
